---- MODULE Spec2Model ----
(***************************************************************************)
(* A model of WebPastMachine.py: one run of the command line tool, from    *)
(* main() through get_wayback_urls() to the process exit.                  *)
(*                                                                         *)
(* Python strings are sequences of one-character strings, so that          *)
(* lower(), endswith(), split(), urlparse() and strptime() are computed    *)
(* character by character.  The colorama branches differ from the plain    *)
(* ones only in the escape codes they add; the plain branches are the ones *)
(* modelled.                                                               *)
(***************************************************************************)
EXTENDS Integers, Sequences, FiniteSets, TLC

VARIABLES
    domain,            \* args.domain
    extension_filter,  \* args.extension
    output_file,       \* args.output
    pc,                \* the statement the interpreter is at
    getCount,          \* number of HTTP GET requests issued so far
    results,           \* response.json(); <<>> before it is assigned
    unique_urls,       \* dict, in insertion order: <<[url, date, archive_link, timestamp]>>
    all_urls,          \* list of retained URLs
    i,                 \* number of data rows the for loop has consumed
    extension_counts,  \* Counter, in insertion order: << <<ext, count>> >>
    stdout,            \* lines printed so far
    fs,                \* the file at output_file: [exists, lines]
    fh,                \* the file object of export_to_file: "none", "open", "closed"
    exc,               \* the exception in flight, or "none"
    raised,            \* classes of the exceptions raised so far
    exitStatus         \* process exit status, or Running

vars == <<domain, extension_filter, output_file, pc, getCount, results, unique_urls,
          all_urls, i, extension_counts, stdout, fs, fh, exc, raised, exitStatus>>

-----------------------------------------------------------------------------
(* Bounds of the model. *)

MaxRows == 3
MaxUrls == 4

-----------------------------------------------------------------------------
(* Python values. *)

(* None, for the variables that otherwise hold a str. *)
None == <<"None">>

(* exitStatus while the process runs. *)
Running == 0 - 1

(* bool(v) of an Optional[str] *)
Truthy(v) == v # None /\ v # <<>>

Min(S) == CHOOSE x \in S : \A y \in S : x <= y
Max(S) == CHOOSE x \in S : \A y \in S : x >= y

(* Printable ASCII in code point order, starting at the space (32).  Code  *)
(* point 96 cannot be written in a string of the language; its place holds *)
(* its name.                                                               *)
Ascii ==
    <<" ", "!", "\"", "#", "$", "%", "&", "'", "(", ")", "*", "+", ",", "-", ".", "/",
      "0", "1", "2", "3", "4", "5", "6", "7", "8", "9", ":", ";", "<", "=", ">", "?",
      "@", "A", "B", "C", "D", "E", "F", "G", "H", "I", "J", "K", "L", "M", "N", "O",
      "P", "Q", "R", "S", "T", "U", "V", "W", "X", "Y", "Z", "[", "\\", "]", "^", "_",
      "grave", "a", "b", "c", "d", "e", "f", "g", "h", "i", "j", "k", "l", "m", "n", "o",
      "p", "q", "r", "s", "t", "u", "v", "w", "x", "y", "z", "{", "|", "}", "~">>

Chars == {Ascii[k] : k \in 1..Len(Ascii)}

Ord == [c \in Chars |-> 31 + (CHOOSE k \in 1..Len(Ascii) : Ascii[k] = c)]

Chr(n) == Ascii[n - 31]

IsDigit(c) == Ord[c] >= 48 /\ Ord[c] <= 57
IsUpper(c) == Ord[c] >= 65 /\ Ord[c] <= 90
IsLower(c) == Ord[c] >= 97 /\ Ord[c] <= 122
IsAlpha(c) == IsUpper(c) \/ IsLower(c)

DigitVal(c) == Ord[c] - 48

(* str.lower() *)
LowerChar(c) == IF IsUpper(c) THEN Chr(Ord[c] + 32) ELSE c
lower(s) == [k \in 1..Len(s) |-> LowerChar(s[k])]

(* str.isalnum(): false on the empty string *)
isalnum(s) == Len(s) > 0 /\ \A k \in 1..Len(s) : IsAlpha(s[k]) \/ IsDigit(s[k])

(* str.endswith, str.startswith *)
endswith(s, suffix) ==
    /\ Len(s) >= Len(suffix)
    /\ SubSeq(s, Len(s) - Len(suffix) + 1, Len(s)) = suffix

startswith(s, prefix) ==
    /\ Len(s) >= Len(prefix)
    /\ SubSeq(s, 1, Len(prefix)) = prefix

(* str.find(c, start) and str.rfind(c), 1-based, 0 when absent *)
Find(s, c, start) ==
    LET I == {k \in start..Len(s) : s[k] = c}
    IN  IF I = {} THEN 0 ELSE Min(I)

RFind(s, c) ==
    LET I == {k \in 1..Len(s) : s[k] = c}
    IN  IF I = {} THEN 0 ELSE Max(I)

(* comparison of two str values: by code point, a proper prefix first *)
RECURSIVE StrLess(_, _)
StrLess(a, b) ==
    IF b = <<>> THEN FALSE
    ELSE IF a = <<>> THEN TRUE
    ELSE IF Ord[Head(a)] # Ord[Head(b)] THEN Ord[Head(a)] < Ord[Head(b)]
    ELSE StrLess(Tail(a), Tail(b))

(* str.zfill-like formatting of %Y, %m, %d, %H, %M, %S in strftime *)
Pad2(n) == <<Chr(48 + (n \div 10)), Chr(48 + (n % 10))>>
Pad4(n) == <<Chr(48 + (n \div 1000)), Chr(48 + ((n \div 100) % 10)),
             Chr(48 + ((n \div 10) % 10)), Chr(48 + (n % 10))>>

-----------------------------------------------------------------------------
(* datetime.strptime(timestamp, '%Y%m%d%H%M%S').strftime('%Y-%m-%d %H:%M:%S') *)

Digits == {"0", "1", "2", "3", "4", "5", "6", "7", "8", "9"}
D(a, b) == {c \in Digits : DigitVal(c) >= a /\ DigitVal(c) <= b}

(* The regular expression strptime compiles the format into: one group per *)
(* directive, each an ordered list of alternatives, each alternative a     *)
(* list of character classes.                                              *)
(*   %Y \d\d\d\d                       %m 1[0-2]|0[1-9]|[1-9]              *)
(*   %d 3[0-1]|[1-2]\d|0[1-9]|[1-9]| [1-9]                                 *)
(*   %H 2[0-3]|[0-1]\d|\d    %M [0-5]\d|\d    %S 6[0-1]|[0-5]\d|\d         *)
FormatRegex ==
    << << <<Digits, Digits, Digits, Digits>> >>,
       << <<{"1"}, D(0, 2)>>, <<{"0"}, D(1, 9)>>, <<D(1, 9)>> >>,
       << <<{"3"}, D(0, 1)>>, <<D(1, 2), Digits>>, <<{"0"}, D(1, 9)>>, <<D(1, 9)>>,
          <<{" "}, D(1, 9)>> >>,
       << <<{"2"}, D(0, 3)>>, <<D(0, 1), Digits>>, <<Digits>> >>,
       << <<D(0, 5), Digits>>, <<Digits>> >>,
       << <<{"6"}, D(0, 1)>>, <<D(0, 5), Digits>>, <<Digits>> >> >>

NoMatch == [ok |-> FALSE, groups |-> <<>>, end |-> 0]

(* The text at pos matches the character classes of one alternative. *)
Fits(s, pos, alt) ==
    /\ pos + Len(alt) - 1 <= Len(s)
    /\ \A k \in 1..Len(alt) : s[pos + k - 1] \in alt[k]

(* A match of the rest of the pattern, with the group matched before it. *)
Prepend(text, rest) ==
    IF rest.ok
    THEN [ok |-> TRUE, groups |-> <<text>> \o rest.groups, end |-> rest.end]
    ELSE NoMatch

(* re.match: the first match in the order of the alternatives, found by    *)
(* backtracking; the match need not reach the end of the string.           *)
RECURSIVE MatchGroup(_, _, _), MatchAlt(_, _, _, _), TryAlt(_, _, _, _), Backtrack(_, _, _, _, _)
MatchGroup(s, pos, g) ==
    IF g > Len(FormatRegex)
    THEN [ok |-> TRUE, groups |-> <<>>, end |-> pos]
    ELSE MatchAlt(s, pos, g, 1)

MatchAlt(s, pos, g, a) ==
    IF a > Len(FormatRegex[g]) THEN NoMatch
    ELSE Backtrack(s, pos, g, a, TryAlt(s, pos, g, FormatRegex[g][a]))

TryAlt(s, pos, g, alt) ==
    IF Fits(s, pos, alt)
    THEN Prepend(SubSeq(s, pos, pos + Len(alt) - 1), MatchGroup(s, pos + Len(alt), g + 1))
    ELSE NoMatch

Backtrack(s, pos, g, a, found) ==
    IF found.ok THEN found ELSE MatchAlt(s, pos, g, a + 1)

(* int(): surrounding white space is ignored *)
RECURSIVE IntOf(_)
IntOf(s) ==
    IF s = <<>> THEN 0
    ELSE IF s[Len(s)] = " " THEN IntOf(SubSeq(s, 1, Len(s) - 1))
    ELSE IF s[1] = " " THEN IntOf(Tail(s))
    ELSE 10 * IntOf(SubSeq(s, 1, Len(s) - 1)) + DigitVal(s[Len(s)])

IsLeap(y) == (y % 4 = 0 /\ y % 100 # 0) \/ y % 400 = 0

DaysInMonth(y, m) ==
    IF m = 2 THEN (IF IsLeap(y) THEN 29 ELSE 28)
    ELSE IF m \in {4, 6, 9, 11} THEN 30 ELSE 31

(* The datetime constructor's range checks. *)
ValidDateTime(y, m, d, hh, mm, ss) ==
    /\ y >= 1 /\ y <= 9999
    /\ m >= 1 /\ m <= 12
    /\ d >= 1 /\ d <= DaysInMonth(y, m)
    /\ hh >= 0 /\ hh <= 23
    /\ mm >= 0 /\ mm <= 59
    /\ ss >= 0 /\ ss <= 59

ValueError == [ok |-> FALSE]

(* datetime(year, month, day, hour, minute, second) *)
datetime(y, mo, d, hh, mm, ss) ==
    IF ValidDateTime(y, mo, d, hh, mm, ss)
    THEN [ok |-> TRUE, year |-> y, month |-> mo, day |-> d,
          hour |-> hh, minute |-> mm, second |-> ss]
    ELSE ValueError

(* What strptime makes of the match of its regular expression. *)
FromMatch(s, m) ==
    IF ~m.ok THEN ValueError
    ELSE IF m.end # Len(s) + 1 THEN ValueError
    ELSE datetime(IntOf(m.groups[1]), IntOf(m.groups[2]), IntOf(m.groups[3]),
                  IntOf(m.groups[4]), IntOf(m.groups[5]), IntOf(m.groups[6]))

(* datetime.strptime: ValueError when the format does not match, when data *)
(* remains after the match, or when the fields are no date and time.       *)
strptime(s) == FromMatch(s, MatchGroup(s, 1, 1))

(* datetime.strftime('%Y-%m-%d %H:%M:%S') *)
strftime(dt) ==
    Pad4(dt.year) \o <<"-">> \o Pad2(dt.month) \o <<"-">> \o Pad2(dt.day) \o <<" ">>
    \o Pad2(dt.hour) \o <<":">> \o Pad2(dt.minute) \o <<":">> \o Pad2(dt.second)

-----------------------------------------------------------------------------
(* urllib.parse.urlparse(url).path *)

SchemeChar(c) == IsAlpha(c) \/ IsDigit(c) \/ c \in {"+", "-", "."}

(* urlsplit: the scheme is what precedes the first ':' when it is made of  *)
(* scheme characters and starts with a letter. *)
AfterScheme(url) ==
    LET c == Find(url, ":", 1)
    IN  IF c > 1 /\ IsAlpha(url[1]) /\ \A k \in 1..(c - 1) : SchemeChar(url[k])
        THEN SubSeq(url, c + 1, Len(url))
        ELSE url

SchemeOf(url) ==
    LET c == Find(url, ":", 1)
    IN  IF c > 1 /\ IsAlpha(url[1]) /\ \A k \in 1..(c - 1) : SchemeChar(url[k])
        THEN lower(SubSeq(url, 1, c - 1))
        ELSE <<>>

(* _splitnetloc: after '//', the netloc ends at the first of '/', '?', '#' *)
AfterNetloc(rest) ==
    IF Len(rest) >= 2 /\ rest[1] = "/" /\ rest[2] = "/"
    THEN LET ends  == {Find(rest, c, 3) : c \in {"/", "?", "#"}} \ {0}
             delim == IF ends = {} THEN Len(rest) + 1 ELSE Min(ends)
         IN  SubSeq(rest, delim, Len(rest))
    ELSE rest

(* url.split(c, 1)[0] when c is in url *)
Before(s, c) ==
    LET k == Find(s, c, 1)
    IN  IF k = 0 THEN s ELSE SubSeq(s, 1, k - 1)

(* schemes of urllib.parse.uses_params that an archived URL can carry *)
uses_params == {<<>>, <<"f", "t", "p">>, <<"h", "t", "t", "p">>,
                <<"h", "t", "t", "p", "s">>}

(* _splitparams: the parameters start at the first ';' of the last segment *)
SplitParams(path) ==
    LET slash == RFind(path, "/")
        semi  == IF slash > 0 THEN Find(path, ";", slash) ELSE Find(path, ";", 1)
    IN  IF semi = 0 THEN path ELSE SubSeq(path, 1, semi - 1)

urlparse_path(url) ==
    LET path == Before(Before(AfterNetloc(AfterScheme(url)), "#"), "?")
    IN  IF SchemeOf(url) \in uses_params /\ Find(path, ";", 1) > 0
        THEN SplitParams(path)
        ELSE path

-----------------------------------------------------------------------------
(* analyze_extensions *)

MaxExtLen == 6

(* path.split('.')[-1] *)
LastDotPart(path) == SubSeq(path, RFind(path, ".") + 1, Len(path))

(* A classification that admits extensions of MaxExtLen characters. *)
ExtensionsOfInclusive(url) ==
    IF Find(urlparse_path(url), ".", 1) > 0
       /\ isalnum(lower(LastDotPart(urlparse_path(url))))
       /\ Len(LastDotPart(urlparse_path(url))) <= MaxExtLen
    THEN <<lower(LastDotPart(urlparse_path(url)))>>
    ELSE <<>>

(* What one URL appends to the list extensions: one extension or nothing. *)
ExtensionsOf(url) ==
    LET path == urlparse_path(url)
    IN  IF Find(path, ".", 1) > 0
        THEN LET ext == lower(LastDotPart(path))
             IN  IF isalnum(ext) /\ Len(ext) < MaxExtLen THEN <<ext>> ELSE <<>>
        ELSE <<>>

(* collections.Counter(list): keys in the order of their first occurrence *)
CounterAdd(counter, key) ==
    IF \E k \in 1..Len(counter) : counter[k][1] = key
    THEN [k \in 1..Len(counter) |->
            IF counter[k][1] = key THEN <<key, counter[k][2] + 1>> ELSE counter[k]]
    ELSE Append(counter, <<key, 1>>)

RECURSIVE Counter(_)
Counter(list) ==
    IF list = <<>> THEN <<>>
    ELSE CounterAdd(Counter(SubSeq(list, 1, Len(list) - 1)), list[Len(list)])

RECURSIVE Extensions(_)
Extensions(urls) ==
    IF urls = <<>> THEN <<>>
    ELSE Extensions(SubSeq(urls, 1, Len(urls) - 1)) \o ExtensionsOf(urls[Len(urls)])

analyze_extensions(urls) == Counter(Extensions(urls))

(* A sort key whose count is not negated. *)
SortKeyLessAscending(x, y) ==
    \/ x[2] < y[2]
    \/ x[2] = y[2] /\ StrLess(x[1], y[1])

(* sorted(extension_counts.items(), key=lambda x: (-x[1], x[0])) *)
SortKeyLess(x, y) ==
    \/ -x[2] < -y[2]
    \/ -x[2] = -y[2] /\ StrLess(x[1], y[1])

(* sorted() is stable: an item goes after the items that do not exceed it. *)
RECURSIVE Insort(_, _)
Insort(list, x) ==
    IF list = <<>> THEN <<x>>
    ELSE IF SortKeyLess(x, Head(list)) THEN <<x>> \o list
    ELSE <<Head(list)>> \o Insort(Tail(list), x)

RECURSIVE sorted(_)
sorted(items) ==
    IF items = <<>> THEN <<>>
    ELSE Insort(sorted(SubSeq(items, 1, Len(items) - 1)), items[Len(items)])

-----------------------------------------------------------------------------
(* The inputs of a run. *)

HttpPrefix == <<"h", "t", "t", "p", ":", "/", "/">>
HttpsPrefix == <<"h", "t", "t", "p", "s", ":", "/", "/">>

UrlPdfUpper == HttpPrefix \o <<"x", ".", "c", "/", "a", ".", "P", "D", "F">>
UrlPdfx == HttpPrefix \o <<"x", ".", "c", "/", "a", ".", "p", "d", "f", "x">>

(* The URLs the archive answers with. *)
URLS == {UrlPdfUpper, UrlPdfx}

TsNewer == <<"2", "0", "2", "0", "0", "1", "0", "1", "0", "0", "0", "0", "0", "0">>
TsOlder == <<"2", "0", "1", "9", "0", "6", "1", "5", "1", "2", "3", "0", "4", "5">>
TsMonth13 == <<"2", "0", "2", "0", "1", "3", "0", "1", "0", "0", "0", "0", "0", "0">>
TsShort == <<"2", "0", "2", "0", "0", "1", "0", "1", "0", "0", "0", "0", "0">>

(* The timestamps the archive answers with: two well-formed ones, one with *)
(* month 13, and one of 13 digits.                                         *)
TIMESTAMPS == {TsNewer, TsOlder, TsMonth13, TsShort}

(* Header rows: the two columns the run reads, and one without the column  *)
(* 'original'.                                                             *)
HEADERS == {<<"timestamp", "original">>, <<"timestamp", "url">>}

(* A data row aligned to its header row. *)
DataRow(headers, ts, url) ==
    [k \in 1..Len(headers) |-> IF headers[k] = "timestamp" THEN ts ELSE url]

RECURSIVE RowLists(_)
RowLists(n) ==
    IF n = 0 THEN {<<>>}
    ELSE LET shorter == RowLists(n - 1)
         IN  shorter \cup {Append(rows, <<ts, url>>) :
                             rows \in {r \in shorter : Len(r) = n - 1},
                             ts \in TIMESTAMPS, url \in URLS}

(* The JSON arrays the archive answers with: [], or a header row and up to *)
(* MaxRows data rows.                                                      *)
Bodies ==
    {<<>>} \cup
    {<<h>> \o [k \in 1..Len(rows) |-> DataRow(h, rows[k][1], rows[k][2])] :
        h \in HEADERS, rows \in RowLists(MaxRows)}

DomainArg == <<"x", ".", "c">>
DOMAINS == {None, <<>>, DomainArg}

FILTERS == {None, <<>>, <<"p", "d", "f">>, <<"P", "D", "F">>}

OutputPath == <<"o", ".", "t", "x", "t">>
OUTPUTS == {None, <<>>, OutputPath}

NoFile == [exists |-> FALSE, lines |-> <<>>]
OldFile == [exists |-> TRUE, lines |-> << <<"previous contents">> >>]

(* What the run finds at the output path: an earlier file; nothing when    *)
(* there is no path.                                                       *)
FileBefore(path) == IF Truthy(path) THEN OldFile ELSE NoFile

-----------------------------------------------------------------------------
(* Exceptions. *)

(* The classes of each exception the run can raise, itself included. *)
Classes ==
    [e \in {"ConnectionError", "Timeout", "HTTPError", "requests.JSONDecodeError",
            "json.JSONDecodeError", "KeyError", "ValueError", "OSError", "SystemExit"} |->
        CASE e \in {"ConnectionError", "Timeout", "HTTPError"} ->
                {e, "RequestException", "OSError", "Exception", "BaseException"}
          [] e = "requests.JSONDecodeError" ->
                {e, "RequestException", "OSError", "json.JSONDecodeError", "ValueError",
                 "Exception", "BaseException"}
          [] e = "json.JSONDecodeError" -> {e, "ValueError", "Exception", "BaseException"}
          [] e = "KeyError" -> {e, "LookupError", "Exception", "BaseException"}
          [] e = "ValueError" -> {e, "Exception", "BaseException"}
          [] e = "OSError" -> {e, "Exception", "BaseException"}
          [] e = "SystemExit" -> {e, "BaseException"}]

isinstance(e, class) == class \in Classes[e]

(* raise e inside the try block that starts at line 55 *)
Raise(e) ==
    /\ exc' = e
    /\ raised' = raised \cup {e}
    /\ pc' = "except"

(* return from get_wayback_urls to main, whose last statement the call is *)
Return ==
    /\ pc' = "exited"
    /\ exitStatus' = 0

(* sys.exit(1) outside every try block *)
Exit1 ==
    /\ pc' = "exited"
    /\ exitStatus' = 1

print(lines) == stdout' = stdout \o lines

-----------------------------------------------------------------------------
(* The state after argparse has parsed the command line. *)

Init ==
    /\ domain \in DOMAINS
    /\ extension_filter \in FILTERS
    /\ output_file \in OUTPUTS
    /\ pc = "main"
    /\ getCount = 0
    /\ results = <<>>
    /\ unique_urls = <<>>
    /\ all_urls = <<>>
    /\ i = 0
    /\ extension_counts = <<>>
    /\ stdout = <<>>
    /\ fs = FileBefore(output_file)
    /\ fh = "none"
    /\ exc = "none"
    /\ raised = {}
    /\ exitStatus = Running

-----------------------------------------------------------------------------
(* main, lines 208-214 *)

Main ==
    /\ pc = "main"
    /\ IF ~Truthy(domain)
       THEN /\ print(<< <<"usage">> >>)
            /\ Exit1
       ELSE /\ pc' = "get_wayback_urls"
            /\ UNCHANGED <<stdout, exitStatus>>
    /\ UNCHANGED <<domain, extension_filter, output_file, getCount, results, unique_urls,
                   all_urls, i, extension_counts, fs, fh, exc, raised>>

(* urlparse(domain).netloc *)
Netloc(url) ==
    LET rest == AfterScheme(url)
    IN  IF Len(rest) >= 2 /\ rest[1] = "/" /\ rest[2] = "/"
        THEN SubSeq(rest, 3, Len(rest) - Len(AfterNetloc(rest)))
        ELSE <<>>

(* lines 52-56 *)
parsed_domain(d) ==
    Netloc(IF startswith(d, HttpPrefix) \/ startswith(d, HttpsPrefix)
           THEN d ELSE HttpPrefix \o d)

(* get_wayback_urls, lines 45-65: the guard, the query URL, the banner *)
Enter ==
    /\ pc = "get_wayback_urls"
    /\ IF ~Truthy(domain)
       THEN /\ print(<< <<"Error: Please provide a valid domain">> >>)
            /\ Return
       ELSE /\ print(<< <<"Searching archived URLs for ", parsed_domain(domain), "...">> >>)
            /\ pc' = "get"
            /\ UNCHANGED exitStatus
    /\ UNCHANGED <<domain, extension_filter, output_file, getCount, results, unique_urls,
                   all_urls, i, extension_counts, fs, fh, exc, raised>>

(* lines 67-68: requests.get and raise_for_status *)
Get ==
    /\ pc = "get"
    /\ getCount' = getCount + 1
    /\ \E outcome \in {"ok", "ConnectionError", "Timeout", "HTTPError"} :
          IF outcome = "ok"
          THEN pc' = "json" /\ UNCHANGED <<exc, raised>>
          ELSE Raise(outcome)
    /\ UNCHANGED <<domain, extension_filter, output_file, results, unique_urls, all_urls,
                   i, extension_counts, stdout, fs, fh, exitStatus>>

(* line 70: response.json(); the class of the error depends on the version *)
(* of requests                                                             *)
Json ==
    /\ pc = "json"
    /\ \/ \E body \in Bodies :
             /\ results' = body
             /\ pc' = "check"
             /\ UNCHANGED <<exc, raised>>
       \/ \E e \in {"json.JSONDecodeError", "requests.JSONDecodeError"} :
             /\ Raise(e)
             /\ UNCHANGED results
    /\ UNCHANGED <<domain, extension_filter, output_file, getCount, unique_urls, all_urls,
                   i, extension_counts, stdout, fs, fh, exitStatus>>

(* A test that lets a lone header row through. *)
NoResultsOffByOne(r) == r = <<>> \/ Len(r) < 1

(* line 72: not results or len(results) <= 1 *)
NoResults(r) == r = <<>> \/ Len(r) <= 1

(* lines 72-90 *)
Check ==
    /\ pc = "check"
    /\ IF NoResults(results)
       THEN /\ print(<< <<"No archived URLs found for this domain.">> >>)
            /\ Return
       ELSE /\ print(<< <<"Processing URLs...">> >>)
            /\ pc' = "loop"
            /\ UNCHANGED exitStatus
    /\ unique_urls' = <<>>
    /\ all_urls' = <<>>
    /\ UNCHANGED <<domain, extension_filter, output_file, getCount, results, i,
                   extension_counts, fs, fh, exc, raised>>

-----------------------------------------------------------------------------
(* The for loop, lines 91-116 *)

ProgressEvery == 100

(* dict(zip(headers, url_data)): a later column of the same name wins *)
DictZip(headers, row) ==
    LET n == Min({Len(headers), Len(row)})
    IN  [name \in {headers[k] : k \in 1..n} |->
            row[Max({k \in 1..n : headers[k] = name})]]

(* A membership test that looks at the last entry only. *)
InDictLastOnly(url, dict) == dict # <<>> /\ dict[Len(dict)].url = url

(* original_url in unique_urls *)
InDict(url, dict) == \E k \in 1..Len(dict) : dict[k].url = url

(* A filter that compares without lowercasing. *)
PassesFilterCaseSensitive(url, filter) ==
    ~(Truthy(filter) /\ ~endswith(url, <<".">> \o filter))

(* lines 101-102: the row passes the extension filter *)
PassesFilter(url, filter) ==
    ~(Truthy(filter) /\ ~endswith(lower(url), <<".">> \o lower(filter)))

(* line 109 *)
ArchiveLink(timestamp, url) == <<"http://web.archive.org/web/", timestamp, "/", url>>

Same(dict, urls) == [raise |-> "none", unique_urls |-> dict, all_urls |-> urls]
Raising(e, dict, urls) == [raise |-> e, unique_urls |-> dict, all_urls |-> urls]

(* lines 107-116 *)
Store(url, timestamp, parsed, dict, urls) ==
    IF ~parsed.ok THEN Raising("ValueError", dict, urls)
    ELSE [raise |-> "none",
          unique_urls |-> Append(dict, [url |-> url,
                                        date |-> strftime(parsed),
                                        archive_link |-> ArchiveLink(timestamp, url),
                                        timestamp |-> timestamp]),
          all_urls |-> Append(urls, url)]

(* An iteration that parses the timestamp before it looks at the URL. *)
RetainEager(url_dict, url, filter, dict, urls) ==
    IF "timestamp" \notin DOMAIN url_dict THEN Raising("KeyError", dict, urls)
    ELSE IF ~strptime(url_dict["timestamp"]).ok THEN Raising("ValueError", dict, urls)
    ELSE IF ~PassesFilter(url, filter) THEN Same(dict, urls)
    ELSE IF InDict(url, dict) THEN Same(dict, urls)
    ELSE Store(url, url_dict["timestamp"], strptime(url_dict["timestamp"]), dict, urls)

(* lines 101-116 *)
Retain(url_dict, url, filter, dict, urls) ==
    IF ~PassesFilter(url, filter) THEN Same(dict, urls)
    ELSE IF InDict(url, dict) THEN Same(dict, urls)
    ELSE IF "timestamp" \notin DOMAIN url_dict THEN Raising("KeyError", dict, urls)
    ELSE Store(url, url_dict["timestamp"], strptime(url_dict["timestamp"]), dict, urls)

(* lines 92-116, one iteration: the exception it raises, or the new values *)
(* of unique_urls and all_urls                                             *)
LoopBody(url_dict, filter, dict, urls) ==
    IF "original" \notin DOMAIN url_dict THEN Raising("KeyError", dict, urls)
    ELSE Retain(url_dict, url_dict["original"], filter, dict, urls)

(* lines 95-99 *)
Progress(n, total, headers) ==
    IF "original" \in {headers[k] : k \in 1..Len(headers)} /\ n > 0 /\ n % ProgressEvery = 0
    THEN << <<"Processed ", n, "/", total, " URLs">> >>
    ELSE <<>>

(* The for statement takes the outcome of one iteration. *)
Iterate(body) ==
    IF body.raise # "none"
    THEN /\ Raise(body.raise)
         /\ UNCHANGED <<unique_urls, all_urls, i>>
    ELSE /\ unique_urls' = body.unique_urls
         /\ all_urls' = body.all_urls
         /\ i' = i + 1
         /\ UNCHANGED <<pc, exc, raised>>

ProcessRow ==
    /\ pc = "loop"
    /\ i < Len(results) - 1
    /\ print(Progress(i, Len(results) - 1, results[1]))
    /\ Iterate(LoopBody(DictZip(results[1], results[i + 2]), extension_filter,
                        unique_urls, all_urls))
    /\ UNCHANGED <<domain, extension_filter, output_file, getCount, results,
                   extension_counts, fs, fh, exitStatus>>

-----------------------------------------------------------------------------
(* The report, lines 118-163 *)

StatsRuleWidth == 50
DividerWidth == 100

(* lines 122-134 *)
StatsLines(counts) ==
    IF counts # <<>>
    THEN LET ordered == sorted(counts)
         IN  [k \in 1..Len(ordered) |->
                <<"*.", ordered[k][1], ": ", ordered[k][2], " files">>]
    ELSE << <<"No files with recognizable extensions were found">> >>

(* lines 118-139 *)
Report ==
    /\ pc = "loop"
    /\ i = Len(results) - 1
    /\ extension_counts' = analyze_extensions(all_urls)
    /\ print(<< <<"Analysis of file types found:">>, <<"-", StatsRuleWidth>> >>
             \o StatsLines(extension_counts')
             \o << <<"Total unique URLs found: ", Len(unique_urls)>> >>)
    /\ pc' = "output"
    /\ UNCHANGED <<domain, extension_filter, output_file, getCount, results, unique_urls,
                   all_urls, i, fs, fh, exc, raised, exitStatus>>

(* A block whose first two lines are exchanged. *)
BlockSwapped(entry) ==
    << <<"First capture: ", entry.date>>,
       <<"URL: ", entry.url>>,
       <<"Archive link: ", entry.archive_link>>,
       <<"-", DividerWidth>> >>

(* The four lines of one URL: lines 35-38 and 160-163. *)
Block(entry) ==
    << <<"URL: ", entry.url>>,
       <<"First capture: ", entry.date>>,
       <<"Archive link: ", entry.archive_link>>,
       <<"-", DividerWidth>> >>

RECURSIVE Blocks(_)
Blocks(dict) ==
    IF dict = <<>> THEN <<>>
    ELSE Blocks(SubSeq(dict, 1, Len(dict) - 1)) \o Block(dict[Len(dict)])

(* lines 142, 148-163: without an output file the records go to stdout *)
PrintRecords ==
    /\ pc = "output"
    /\ ~Truthy(output_file)
    /\ print(<< <<"-", DividerWidth>> >> \o Blocks(unique_urls))
    /\ Return
    /\ UNCHANGED <<domain, extension_filter, output_file, getCount, results, unique_urls,
                   all_urls, i, extension_counts, fs, fh, exc, raised>>

(* lines 142-143 and 33: open(output_file, 'w') truncates the file or fails *)
ExportOpen ==
    /\ pc = "output"
    /\ Truthy(output_file)
    /\ \/ /\ fs' = [exists |-> TRUE, lines |-> <<>>]
          /\ fh' = "open"
          /\ pc' = "write"
          /\ UNCHANGED <<exc, raised>>
       \/ /\ exc' = "OSError"
          /\ raised' = raised \cup {"OSError"}
          /\ pc' = "export_except"
          /\ UNCHANGED <<fs, fh>>
    /\ UNCHANGED <<domain, extension_filter, output_file, getCount, results, unique_urls,
                   all_urls, i, extension_counts, stdout, exitStatus>>

(* lines 34-38: the block of the next URL is written, or the write fails   *)
(* and the with statement closes the file                                  *)
ExportWrite ==
    /\ pc = "write"
    /\ Len(fs.lines) < 4 * Len(unique_urls)
    /\ \/ /\ fs' = [fs EXCEPT !.lines = @ \o Block(unique_urls[(Len(@) \div 4) + 1])]
          /\ UNCHANGED <<pc, fh, exc, raised>>
       \/ /\ exc' = "OSError"
          /\ raised' = raised \cup {"OSError"}
          /\ fh' = "closed"
          /\ pc' = "export_except"
          /\ UNCHANGED fs
    /\ UNCHANGED <<domain, extension_filter, output_file, getCount, results, unique_urls,
                   all_urls, i, extension_counts, stdout, exitStatus>>

(* the end of the with statement, and lines 144-147 *)
ExportDone ==
    /\ pc = "write"
    /\ Len(fs.lines) = 4 * Len(unique_urls)
    /\ fh' = "closed"
    /\ print(<< <<"Results exported to: ", output_file>> >>)
    /\ Return
    /\ UNCHANGED <<domain, extension_filter, output_file, getCount, results, unique_urls,
                   all_urls, i, extension_counts, fs, exc, raised>>

(* A handler that reports the error and lets export_to_file return. *)
ExportExceptSwallow ==
    /\ pc = "export_except"
    /\ print(<< <<"Error writing to file: ", exc>>,
                <<"Results exported to: ", output_file>> >>)
    /\ Return
    /\ UNCHANGED <<domain, extension_filter, output_file, getCount, results, unique_urls,
                   all_urls, i, extension_counts, fs, fh, exc, raised>>

(* lines 39-41: except IOError in export_to_file: sys.exit(1) raises       *)
(* SystemExit inside the try block of get_wayback_urls                     *)
ExportExcept ==
    /\ pc = "export_except"
    /\ print(<< <<"Error writing to file: ", exc>> >>)
    /\ Raise("SystemExit")
    /\ UNCHANGED <<domain, extension_filter, output_file, getCount, results, unique_urls,
                   all_urls, i, extension_counts, fs, fh, exitStatus>>

(* A handler that issues the request again after a network error. *)
ExceptRetry ==
    /\ pc = "except"
    /\ IF isinstance(exc, "RequestException")
       THEN /\ print(<< <<"Error fetching data: ", exc>> >>)
            /\ pc' = "get"
            /\ UNCHANGED exitStatus
       ELSE /\ UNCHANGED stdout
            /\ Exit1
    /\ UNCHANGED <<domain, extension_filter, output_file, getCount, results, unique_urls,
                   all_urls, i, extension_counts, fs, fh, exc, raised>>

(* lines 165-173: the first except clause whose class the exception has;   *)
(* an exception none of them has ends the process with its own status      *)
Except ==
    /\ pc = "except"
    /\ IF isinstance(exc, "RequestException")
       THEN print(<< <<"Error fetching data: ", exc>> >>)
       ELSE IF isinstance(exc, "json.JSONDecodeError")
       THEN print(<< <<"Error processing server response">> >>)
       ELSE IF isinstance(exc, "Exception")
       THEN print(<< <<"Unexpected error: ", exc>> >>)
       ELSE UNCHANGED stdout
    /\ Exit1
    /\ UNCHANGED <<domain, extension_filter, output_file, getCount, results, unique_urls,
                   all_urls, i, extension_counts, fs, fh, exc, raised>>

Next ==
    \/ Main
    \/ Enter
    \/ Get
    \/ Json
    \/ Check
    \/ ProcessRow
    \/ Report
    \/ PrintRecords
    \/ ExportOpen
    \/ ExportWrite
    \/ ExportDone
    \/ ExportExcept
    \/ Except

Spec == Init /\ [][Next]_vars

-----------------------------------------------------------------------------
(* The report on its own: the runs without a filter and without an output  *)
(* file in which the archive answers with up to MaxUrls rows of distinct   *)
(* URLs, taken up when the for loop starts.                                *)

Site == HttpPrefix \o <<"x", ".", "c">>

UrlJsA == Site \o <<"/", "a", ".", "j", "s">>
UrlJsB == Site \o <<"/", "b", ".", "j", "s">>
UrlCss == Site \o <<"/", "a", ".", "c", "s", "s">>
UrlFive == Site \o <<"/", "a", ".", "a", "b", "c", "d", "e">>
UrlSix == Site \o <<"/", "a", ".", "a", "b", "c", "d", "e", "f">>
UrlVeryLong == Site \o <<"/", "a", ".", "v", "e", "r", "y", "l", "o", "n", "g", "e", "x", "t">>
UrlQuery == Site \o <<"/", "a", ".", "p", "d", "f", "?", "q", "=", "1", ".", "j", "s">>
UrlVersion == Site \o <<"/", "v", "1", ".", "2", "/", "a">>

REPORT_URLS == {UrlJsA, UrlJsB, UrlCss, UrlPdfUpper, UrlFive, UrlSix, UrlVeryLong,
                UrlQuery, UrlVersion, Site}

RECURSIVE DistinctLists(_)
DistinctLists(n) ==
    IF n = 0 THEN {<<>>}
    ELSE LET shorter == DistinctLists(n - 1)
             longest == {u \in shorter : Len(u) = n - 1}
         IN  shorter \cup
             {Append(p[1], p[2]) :
                p \in {q \in longest \X REPORT_URLS :
                         \A k \in 1..Len(q[1]) : q[1][k] # q[2]}}

ReportBodies ==
    {<<(<<"timestamp", "original">>)>> \o [k \in 1..Len(urls) |-> <<TsNewer, urls[k]>>] :
        urls \in DistinctLists(MaxUrls) \ {<<>>}}

InitReport ==
    /\ domain = DomainArg
    /\ extension_filter = None
    /\ output_file = None
    /\ pc = "loop"
    /\ getCount = 1
    /\ results \in ReportBodies
    /\ unique_urls = <<>>
    /\ all_urls = <<>>
    /\ i = 0
    /\ extension_counts = <<>>
    /\ stdout = << <<"Searching archived URLs for ", parsed_domain(domain), "...">>,
                   <<"Processing URLs...">> >>
    /\ fs = NoFile
    /\ fh = "none"
    /\ exc = "none"
    /\ raised = {}
    /\ exitStatus = Running

NextReport ==
    \/ ProcessRow
    \/ Report
    \/ PrintRecords

SpecReport == InitReport /\ [][NextReport]_vars

-----------------------------------------------------------------------------
(* The vocabulary of the properties: the response as rows of the columns   *)
(* 'timestamp' and 'original', and what a run has printed and written.     *)

RowCount == Len(results) - 1

HasColumns ==
    /\ Len(results) > 1
    /\ \A name \in {"timestamp", "original"} :
          \E c \in 1..Len(results[1]) : results[1][c] = name

Column(name) == CHOOSE c \in 1..Len(results[1]) : results[1][c] = name
RowUrl(k) == results[k + 1][Column("original")]
RowTs(k) == results[k + 1][Column("timestamp")]

(* The URL, lowercased, ends with '.' followed by f lowercased. *)
EndsWithExtension(url, f) == endswith(lower(url), <<".">> \o lower(f))

FilterKeeps(url) ==
    ~Truthy(extension_filter) \/ EndsWithExtension(url, extension_filter)

(* Row k passes the filter and no earlier row carries its URL. *)
FirstOfUrl(k) ==
    /\ FilterKeeps(RowUrl(k))
    /\ \A j \in 1..(k - 1) : RowUrl(j) # RowUrl(k)

(* The for loop has consumed every data row. *)
PassDone == Len(results) > 1 /\ i = RowCount

Retained(url) == \E k \in 1..Len(unique_urls) : unique_urls[k].url = url

(* What strptime makes of each timestamp of the responses. *)
Parsed == [ts \in TIMESTAMPS |-> strptime(ts)]

DateText(ts) == strftime(Parsed[ts])

LinkText(ts, url) == <<"http://web.archive.org/web/", ts, "/", url>>

(* The rows whose URL is seen first, in response order. *)
RECURSIVE FirstSeenUpTo(_)
FirstSeenUpTo(n) ==
    IF n = 0 THEN <<>>
    ELSE IF FirstOfUrl(n) THEN Append(FirstSeenUpTo(n - 1), n)
    ELSE FirstSeenUpTo(n - 1)

FirstSeenRows == FirstSeenUpTo(RowCount)

(* Line n of the blocks of the given rows. *)
ExpectedLine(rows, n) ==
    LET k == rows[((n - 1) \div 4) + 1]
    IN  CASE (n - 1) % 4 = 0 -> <<"URL: ", RowUrl(k)>>
          [] (n - 1) % 4 = 1 -> <<"First capture: ", DateText(RowTs(k))>>
          [] (n - 1) % 4 = 2 -> <<"Archive link: ", LinkText(RowTs(k), RowUrl(k))>>
          [] (n - 1) % 4 = 3 -> <<"-", 100>>

BlocksOf(rows, lines) ==
    /\ Len(lines) = 4 * Len(rows)
    /\ \A n \in 1..Len(lines) : lines[n] = ExpectedLine(rows, n)

IsBlocks(lines) == BlocksOf(FirstSeenRows, lines)

IsRecordLine(line) == line[1] \in {"URL: ", "First capture: ", "Archive link: "}
IsStatLine(line) == line[1] = "*."
IsTotalLine(line) == line[1] = "Total unique URLs found: "

RecordsPrinted == \E k \in 1..Len(stdout) : IsRecordLine(stdout[k])

StatsPrinted ==
    \E k \in 1..Len(stdout) :
        \/ IsStatLine(stdout[k])
        \/ IsTotalLine(stdout[k])
        \/ stdout[k][1] \in {"Analysis of file types found:",
                             "No files with recognizable extensions were found"}

(* The file is as it was before the run: never opened, never written. *)
FileUntouched == fh = "none" /\ fs = FileBefore(output_file)

NetworkErrors == {"ConnectionError", "Timeout", "HTTPError"}
ParseErrors == {"json.JSONDecodeError", "requests.JSONDecodeError"}

-----------------------------------------------------------------------------
(* C1: after the processing pass, unique_urls holds exactly one record per *)
(* distinct URL among the rows that pass the extension filter, and the     *)
(* record's timestamp, date and archive link are those of the first row in *)
(* response order that carries the URL, whatever later rows carry.         *)
C1_FirstRowWins ==
    PassDone =>
        /\ {unique_urls[e].url : e \in 1..Len(unique_urls)}
             = {RowUrl(k) : k \in {j \in 1..RowCount : FilterKeeps(RowUrl(j))}}
        /\ \A a, b \in 1..Len(unique_urls) :
              a # b => unique_urls[a].url # unique_urls[b].url
        /\ \A e \in 1..Len(unique_urls) :
              \E k \in 1..RowCount :
                 /\ RowUrl(k) = unique_urls[e].url
                 /\ \A j \in 1..(k - 1) : RowUrl(j) # RowUrl(k)
                 /\ unique_urls[e].timestamp = RowTs(k)
                 /\ unique_urls[e].date = DateText(RowTs(k))
                 /\ unique_urls[e].archive_link = LinkText(RowTs(k), RowUrl(k))

(* A finished run in which a later row of a retained URL carries an        *)
(* earlier timestamp than the first one.                                   *)
C1_Witness ==
    /\ pc = "exited" /\ exitStatus = 0 /\ PassDone
    /\ \E j, k \in 1..RowCount :
          /\ j < k
          /\ FirstOfUrl(j)
          /\ RowUrl(j) = RowUrl(k)
          /\ RowTs(j) = TsNewer
          /\ RowTs(k) = TsOlder

-----------------------------------------------------------------------------
(* The run has raised one of the errors the exit status answers for. *)
Failed ==
    raised \cap (NetworkErrors \cup ParseErrors \cup {"OSError", "KeyError", "ValueError"})
        # {}

(* C2: a run with a domain argument exits with status 1 when it has hit a  *)
(* network failure, a JSON parse failure, a failure to open or write the   *)
(* output file or any other error, and with status 0 otherwise, which is   *)
(* when it completed or found no results.                                  *)
C2_ExitStatus ==
    (pc = "exited" /\ Truthy(domain)) =>
        /\ exitStatus \in {0, 1}
        /\ Failed => exitStatus = 1
        /\ ~Failed => /\ exitStatus = 0
                      /\ getCount = 1
                      /\ NoResults(results) \/ PassDone

(* A run whose output file failed after the first block was written. *)
C2_Witness ==
    /\ pc = "exited"
    /\ Truthy(domain)
    /\ exitStatus = 1
    /\ "OSError" \in raised
    /\ fh = "closed"
    /\ Len(fs.lines) = 4

-----------------------------------------------------------------------------
(* C3: when the decoded response is [] or the header row alone, the run    *)
(* prints the message of no results, exits with status 0, processes no     *)
(* row, prints no URL block and no statistics, and never opens the output  *)
(* file.                                                                   *)
C3_NoResults ==
    (pc = "exited" /\ Truthy(domain) /\ raised = {} /\ Len(results) <= 1) =>
        /\ stdout[Len(stdout)][1] = "No archived URLs found for this domain."
        /\ exitStatus = 0
        /\ i = 0
        /\ unique_urls = <<>>
        /\ all_urls = <<>>
        /\ ~RecordsPrinted
        /\ ~StatsPrinted
        /\ FileUntouched

(* The header row alone, with an output path given and a file there. *)
C3_Witness ==
    /\ pc = "exited"
    /\ Truthy(domain)
    /\ raised = {}
    /\ Len(results) = 1
    /\ output_file = OutputPath
    /\ fs = OldFile
    /\ exitStatus = 0

-----------------------------------------------------------------------------
(* The timestamp is 14 digits that spell a date and a time. *)
WellFormed14(ts) ==
    /\ Len(ts) = 14
    /\ \A k \in 1..14 : ts[k] \in Digits
    /\ ValidDateTime(IntOf(SubSeq(ts, 1, 4)), IntOf(SubSeq(ts, 5, 6)),
                     IntOf(SubSeq(ts, 7, 8)), IntOf(SubSeq(ts, 9, 10)),
                     IntOf(SubSeq(ts, 11, 12)), IntOf(SubSeq(ts, 13, 14)))

(* C4: if a retained row (it passes the filter and its URL was not seen    *)
(* before) has a timestamp that is not 14 digits YYYYMMDDHHMMSS, the run   *)
(* exits with status 1 and has produced nothing: no URL block, no          *)
(* statistics, no output file.                                             *)
C4_MalformedIsFatal ==
    (/\ pc = "exited"
     /\ HasColumns
     /\ \E k \in 1..RowCount : FirstOfUrl(k) /\ ~WellFormed14(RowTs(k))) =>
        /\ exitStatus = 1
        /\ ~RecordsPrinted
        /\ ~StatsPrinted
        /\ FileUntouched

-----------------------------------------------------------------------------
(* C5, as stated: whenever an extension filter f is given, every retained  *)
(* URL, lowercased, ends with '.' followed by f lowercased, and every row  *)
(* that does not is skipped; without a filter no row is skipped.           *)
C5_GivenFilterAlwaysFilters ==
    /\ extension_filter # None =>
          \A e \in 1..Len(unique_urls) :
              EndsWithExtension(unique_urls[e].url, extension_filter)
    /\ (PassDone /\ extension_filter # None) =>
          \A k \in 1..RowCount :
              Retained(RowUrl(k)) <=> EndsWithExtension(RowUrl(k), extension_filter)
    /\ (PassDone /\ extension_filter = None) =>
          \A k \in 1..RowCount : Retained(RowUrl(k))

(* C5, amended: the filter applies when f is a non-empty string; when no   *)
(* filter is given, or the empty string is, no row is skipped.             *)
C5_ExtensionFilter ==
    /\ Truthy(extension_filter) =>
          \A e \in 1..Len(unique_urls) :
              EndsWithExtension(unique_urls[e].url, extension_filter)
    /\ (PassDone /\ Truthy(extension_filter)) =>
          \A k \in 1..RowCount :
              Retained(RowUrl(k)) <=> EndsWithExtension(RowUrl(k), extension_filter)
    /\ (PassDone /\ ~Truthy(extension_filter)) =>
          \A k \in 1..RowCount : Retained(RowUrl(k))

(* With the filter 'pdf', a URL ending '.PDF' is retained and one ending   *)
(* '.pdfx' is skipped.                                                     *)
C5_Witness ==
    /\ PassDone
    /\ extension_filter = <<"p", "d", "f">>
    /\ \E j, k \in 1..RowCount : RowUrl(j) = UrlPdfUpper /\ RowUrl(k) = UrlPdfx
    /\ Retained(UrlPdfUpper)
    /\ ~Retained(UrlPdfx)

-----------------------------------------------------------------------------
(* The statistics are computed. *)
Reported == PassDone /\ pc # "loop"

(* The key a URL counts under, as a list of no or one key. *)
ClaimedKey(url) ==
    LET path == urlparse_path(url)
        dots == {k \in 1..Len(path) : path[k] = "."}
    IN  IF dots = {} THEN <<>>
        ELSE LET text == lower(SubSeq(path, Max(dots) + 1, Len(path)))
             IN  IF /\ Len(text) >= 1
                    /\ Len(text) < 6
                    /\ \A k \in 1..Len(text) : IsAlpha(text[k]) \/ IsDigit(text[k])
                 THEN <<text>>
                 ELSE <<>>

RECURSIVE SumOfCounts(_)
SumOfCounts(counter) ==
    IF counter = <<>> THEN 0 ELSE counter[1][2] + SumOfCounts(Tail(counter))

(* C6: once the statistics are computed, every key of extension_counts is  *)
(* lowercase, alphanumeric and of 1 to 5 characters; each retained URL     *)
(* counts under the lowercased text after the last '.' of its path, query  *)
(* and fragment stripped, when that text is alphanumeric and shorter than  *)
(* 6 characters, and under nothing otherwise; the counts sum to at most    *)
(* the number of retained URLs.                                            *)
C6_ExtensionClassification ==
    Reported =>
        /\ \A k \in 1..Len(extension_counts) :
              LET ext == extension_counts[k][1]
              IN  /\ Len(ext) >= 1 /\ Len(ext) <= 5
                  /\ \A c \in 1..Len(ext) : IsLower(ext[c]) \/ IsDigit(ext[c])
                  /\ extension_counts[k][2]
                       = Cardinality({u \in 1..Len(all_urls) : ClaimedKey(all_urls[u]) = <<ext>>})
                  /\ extension_counts[k][2] >= 1
        /\ \A a, b \in 1..Len(extension_counts) :
              a # b => extension_counts[a][1] # extension_counts[b][1]
        /\ \A u \in 1..Len(all_urls) :
              ClaimedKey(all_urls[u]) # <<>> =>
                  \E k \in 1..Len(extension_counts) :
                      <<extension_counts[k][1]>> = ClaimedKey(all_urls[u])
        /\ SumOfCounts(extension_counts) <= Len(all_urls)

(* '/a.verylongext' counts nothing, '/a.PDF' and '/a.pdf?q=1.js' count     *)
(* under 'pdf'.                                                            *)
C6_Witness ==
    /\ pc = "exited"
    /\ \E a, b, c \in 1..Len(all_urls) :
          all_urls[a] = UrlVeryLong /\ all_urls[b] = UrlPdfUpper /\ all_urls[c] = UrlQuery
    /\ Len(all_urls) = 3
    /\ extension_counts = << <<(<<"p", "d", "f">>), 2>> >>

-----------------------------------------------------------------------------
(* The extension lines of the statistics, as printed. *)
StatLines == SelectSeq(stdout, IsStatLine)

(* C7: the extension lines are printed in descending order of count, equal *)
(* counts in ascending order of the extension name, and they are the       *)
(* entries of the count mapping, each once.                                *)
C7_StatisticsOrder ==
    Reported =>
        /\ Len(StatLines) = Len(extension_counts)
        /\ \A k \in 1..Len(extension_counts) :
              \E n \in 1..Len(StatLines) :
                  /\ StatLines[n][2] = extension_counts[k][1]
                  /\ StatLines[n][4] = extension_counts[k][2]
        /\ \A n \in 1..(Len(StatLines) - 1) :
              \/ StatLines[n][4] > StatLines[n + 1][4]
              \/ /\ StatLines[n][4] = StatLines[n + 1][4]
                 /\ StrLess(StatLines[n][2], StatLines[n + 1][2])

(* Counts {css: 1, js: 2, abcde: 1}, met in that order, print as js,       *)
(* abcde, css.                                                             *)
C7_Witness ==
    /\ pc = "exited"
    /\ extension_counts = << <<(<<"c", "s", "s">>), 1>>, <<(<<"j", "s">>), 2>>,
                             <<(<<"a", "b", "c", "d", "e">>), 1>> >>
    /\ Len(StatLines) = 3
    /\ StatLines[1][2] = <<"j", "s">>
    /\ StatLines[2][2] = <<"a", "b", "c", "d", "e">>
    /\ StatLines[3][2] = <<"c", "s", "s">>

-----------------------------------------------------------------------------
(* The records are in first-seen order of their URLs. *)
InFirstSeenOrder ==
    /\ Len(unique_urls) = Len(FirstSeenRows)
    /\ \A b \in 1..Len(unique_urls) : unique_urls[b].url = RowUrl(FirstSeenRows[b])

TotalPrinted(n) ==
    \E k \in 1..Len(stdout) : IsTotalLine(stdout[k]) /\ stdout[k][2] = n

FileHoldsBlocks ==
    /\ fs.exists
    /\ fh = "closed"
    /\ IsBlocks(fs.lines)
    /\ TotalPrinted(Len(fs.lines) \div 4)
    /\ \A a, b \in 1..(Len(fs.lines) \div 4) :
          a # b => fs.lines[4 * a - 3] # fs.lines[4 * b - 3]
    /\ ~RecordsPrinted

(* The lines printed after the total: the divider, then the blocks. *)
PrintedAfterTotal ==
    LET t == CHOOSE k \in 1..Len(stdout) : IsTotalLine(stdout[k])
    IN  SubSeq(stdout, t + 1, Len(stdout))

StdoutHoldsBlocks ==
    /\ Len(PrintedAfterTotal) >= 1
    /\ PrintedAfterTotal[1] = <<"-", 100>>
    /\ IsBlocks(Tail(PrintedAfterTotal))
    /\ TotalPrinted(Len(unique_urls))
    /\ FileUntouched

Succeeded == pc = "exited" /\ exitStatus = 0 /\ PassDone

(* C8, as stated: the records are in first-seen order of their URLs, and   *)
(* whenever an output file path is given a successful run leaves the file  *)
(* holding exactly one four-line block per retained URL in that order, as  *)
(* many blocks as the printed total, no URL twice, and prints no block.    *)
C8_GivenPathAlwaysWritten ==
    Succeeded =>
        /\ InFirstSeenOrder
        /\ IF output_file # None THEN FileHoldsBlocks ELSE StdoutHoldsBlocks

(* C8, amended: the file is written when the output path is a non-empty    *)
(* string; when no path is given, or the empty string is, the blocks are   *)
(* printed and no file is touched.                                         *)
C8_OutputOrder ==
    Succeeded =>
        /\ InFirstSeenOrder
        /\ IF Truthy(output_file) THEN FileHoldsBlocks ELSE StdoutHoldsBlocks

(* A file that existed before now holds the blocks of two URLs, '.pdfx'    *)
(* first, out of three rows.                                               *)
C8_Witness ==
    /\ Succeeded
    /\ output_file = OutputPath
    /\ RowCount = 3
    /\ Len(unique_urls) = 2
    /\ unique_urls[1].url = UrlPdfx
    /\ unique_urls[2].url = UrlPdfUpper
    /\ Len(fs.lines) = 8

-----------------------------------------------------------------------------
(* What a run has done of the pipeline. *)
NetworkOrParseFailure == raised \cap (NetworkErrors \cup ParseErrors) # {}

OutputStarted == RecordsPrinted \/ fh # "none" \/ pc \in {"write", "export_except"}

(* C9: at most one GET is issued; after a network or parse failure nothing *)
(* of the pipeline runs; rows are processed only after a successful fetch  *)
(* and parse; statistics, record output and the file come only after the   *)
(* whole row pass.                                                         *)
C9_FailFast ==
    /\ getCount <= 1
    /\ NetworkOrParseFailure =>
          /\ pc \in {"except", "exited"}
          /\ results = <<>>
          /\ i = 0
          /\ unique_urls = <<>>
          /\ ~StatsPrinted
          /\ ~OutputStarted
          /\ fs = FileBefore(output_file)
          /\ raised \subseteq (NetworkErrors \cup ParseErrors)
    /\ (pc = "loop" \/ i > 0 \/ unique_urls # <<>>) =>
          /\ getCount = 1
          /\ Len(results) > 1
          /\ ~NetworkOrParseFailure
    /\ (StatsPrinted \/ OutputStarted) => PassDone

(* A run that ended on a timeout of its only request. *)
C9_Witness ==
    /\ pc = "exited"
    /\ raised = {"Timeout"}
    /\ getCount = 1
    /\ exitStatus = 1

-----------------------------------------------------------------------------
(* strptime accepts the timestamp. *)
Accepted(ts) == Parsed[ts].ok

(* C10: the run fails on a timestamp only when strptime rejects the        *)
(* timestamp of the first filter-passing row of some URL; the timestamps   *)
(* of rows skipped by the filter or as duplicates never fail it.           *)
C10_SkippedRowsUnexamined ==
    /\ exc = "ValueError" =>
          /\ HasColumns
          /\ i < RowCount
          /\ FirstOfUrl(i + 1)
          /\ ~Accepted(RowTs(i + 1))
    /\ (/\ pc = "exited"
        /\ HasColumns
        /\ \A k \in 1..RowCount : FirstOfUrl(k) => Accepted(RowTs(k))) =>
          /\ "ValueError" \notin raised
          /\ PassDone

(* A successful run over a duplicate row and a filtered row that both      *)
(* carry month 13.                                                         *)
C10_Witness ==
    /\ Succeeded
    /\ \E j, k \in 1..RowCount :
          /\ j # k
          /\ RowTs(j) = TsMonth13 /\ ~FilterKeeps(RowUrl(j))
          /\ RowTs(k) = TsMonth13 /\ FilterKeeps(RowUrl(k)) /\ ~FirstOfUrl(k)

====
